---- MODULE Spec2Model ----
(***************************************************************************)
(* Clear (assistant.py): the natural-language task resolver, the task     *)
(* endpoints and the date/content extraction helpers, as a state machine  *)
(* over the SQLite tasks table.                                            *)
(***************************************************************************)
EXTENDS Integers, Sequences, FiniteSets, TLC

(***************************************************************************)
(* Python str primitives.  A str is a TLA+ string; characters are strings *)
(* of length one.                                                          *)
(***************************************************************************)
At(s, i) == SubSeq(s, i, i)

UpperAlpha == "ABCDEFGHIJKLMNOPQRSTUVWXYZ"

LowerAlpha == "abcdefghijklmnopqrstuvwxyz"

DigitChars == "0123456789"

IndexIn(alpha, c) ==
    IF \E i \in 1..Len(alpha) : At(alpha, i) = c
    THEN CHOOSE i \in 1..Len(alpha) : At(alpha, i) = c
    ELSE 0

LowerChar(c) ==
    LET i == IndexIn(UpperAlpha, c) IN IF i > 0 THEN At(LowerAlpha, i) ELSE c

UpperChar(c) ==
    LET i == IndexIn(LowerAlpha, c) IN IF i > 0 THEN At(UpperAlpha, i) ELSE c

IsSpace(c) == c = " "

IsDigit(c) == IndexIn(DigitChars, c) > 0

\* \w of the re module
IsWord(c) == IndexIn(LowerAlpha, c) > 0 \/ IndexIn(UpperAlpha, c) > 0 \/ IsDigit(c) \/ c = "_"

RECURSIVE lower(_)
\* str.lower()
lower(s) ==
    IF Len(s) = 0 THEN "" ELSE LowerChar(At(s, 1)) \o lower(SubSeq(s, 2, Len(s)))

\* str.strip()
strip(s) ==
    LET keep == {i \in 1..Len(s) : ~IsSpace(At(s, i))} IN
    IF keep = {} THEN ""
    ELSE LET a == CHOOSE i \in keep : \A j \in keep : i <= j
             b == CHOOSE i \in keep : \A j \in keep : j <= i
         IN SubSeq(s, a, b)

\* str.capitalize()
capitalize(s) ==
    IF Len(s) = 0 THEN "" ELSE UpperChar(At(s, 1)) \o lower(SubSeq(s, 2, Len(s)))

\* sub in s
Contains(s, sub) ==
    \E i \in 0..(Len(s) - Len(sub)) : SubSeq(s, i + 1, i + Len(sub)) = sub

\* any(word in s for word in words)
ContainsAny(s, words) == \E w \in words : Contains(s, w)

StartsWithAt(s, i, lit) ==
    /\ i + Len(lit) - 1 <= Len(s)
    /\ SubSeq(s, i, i + Len(lit) - 1) = lit

\* the first index from i on whose character is not a space (Len(s)+1 if none)
SpaceEnd(s, i) ==
    LET stops == {j \in i..Len(s) : ~IsSpace(At(s, j))} IN
    IF stops = {} THEN Len(s) + 1 ELSE CHOOSE j \in stops : \A k \in stops : j <= k

WordEnd(s, i) ==
    LET stops == {j \in i..Len(s) : ~IsWord(At(s, j))} IN
    IF stops = {} THEN Len(s) + 1 ELSE CHOOSE j \in stops : \A k \in stops : j <= k

DigitEnd(s, i) ==
    LET stops == {j \in i..Len(s) : ~IsDigit(At(s, j))} IN
    IF stops = {} THEN Len(s) + 1 ELSE CHOOSE j \in stops : \A k \in stops : j <= k

RECURSIVE SplitFrom(_, _)
SplitFrom(s, i) ==
    LET a == SpaceEnd(s, i) IN
    IF a > Len(s) THEN <<>>
    ELSE LET stops == {j \in a..Len(s) : IsSpace(At(s, j))}
             b == IF stops = {} THEN Len(s) + 1
                  ELSE CHOOSE j \in stops : \A k \in stops : j <= k
         IN <<SubSeq(s, a, b - 1)>> \o SplitFrom(s, b)

\* str.split()
split(s) == SplitFrom(s, 1)

(***************************************************************************)
(* The regular expressions of extract_task_content.  A matcher gives the  *)
(* index just after the match that starts at i, or 0 when none starts     *)
(* there.                                                                  *)
(***************************************************************************)
\* \b between s[j-1] and s[j]
Boundary(s, j) ==
    LET before == j - 1 >= 1 /\ j - 1 <= Len(s) /\ IsWord(At(s, j - 1))
        after == j >= 1 /\ j <= Len(s) /\ IsWord(At(s, j))
    IN before # after

\* \s+ (greedy)
MatchWs(s, i) ==
    IF i >= 1 /\ i <= Len(s) /\ IsSpace(At(s, i)) THEN SpaceEnd(s, i) ELSE 0

\* \s+<lit>\b
MatchLit(s, i, lit) ==
    LET j == MatchWs(s, i) IN
    IF j > 0 /\ StartsWithAt(s, j, lit) /\ Boundary(s, j + Len(lit))
    THEN j + Len(lit) ELSE 0

\* \s+<lit>\w+\b
MatchLitWord(s, i, lit) ==
    LET j == MatchWs(s, i) IN
    IF j > 0 /\ StartsWithAt(s, j, lit) /\ WordEnd(s, j + Len(lit)) > j + Len(lit)
    THEN WordEnd(s, j + Len(lit)) ELSE 0

\* \s+on \w+day\b
MatchOnDay(s, i) ==
    LET j == MatchWs(s, i)
        k == j + 3
        e == WordEnd(s, k)
    IN IF j > 0 /\ StartsWithAt(s, j, "on ") /\ e - k >= 4
          /\ SubSeq(s, e - 3, e - 1) = "day"
       THEN e ELSE 0

\* \s+in \d+ days?\b
MatchInDays(s, i) ==
    LET j == MatchWs(s, i)
        k == j + 3
        e == DigitEnd(s, k)
        p == e + 4
    IN IF j > 0 /\ StartsWithAt(s, j, "in ") /\ e > k /\ StartsWithAt(s, e, " day")
       THEN IF StartsWithAt(s, p, "s") /\ Boundary(s, p + 1) THEN p + 1
            ELSE IF Boundary(s, p) THEN p ELSE 0
       ELSE 0

\* \s+on \d{1,2}/\d{1,2}\b
MatchOnSlash(s, i) ==
    LET j == MatchWs(s, i)
        k == j + 3
        e == DigitEnd(s, k)
        f == DigitEnd(s, e + 1)
    IN IF j > 0 /\ StartsWithAt(s, j, "on ") /\ e - k \in {1, 2}
          /\ StartsWithAt(s, e, "/") /\ f - (e + 1) \in {1, 2} /\ Boundary(s, f)
       THEN f ELSE 0

Match(p, s, i) ==
    CASE p.kind = "lit"     -> MatchLit(s, i, p.lit)
      [] p.kind = "litword" -> MatchLitWord(s, i, p.lit)
      [] p.kind = "onday"   -> MatchOnDay(s, i)
      [] p.kind = "indays"  -> MatchInDays(s, i)
      [] p.kind = "onslash" -> MatchOnSlash(s, i)

RECURSIVE reSubFrom(_, _, _)
reSubFrom(p, s, i) ==
    IF i > Len(s) THEN ""
    ELSE LET e == Match(p, s, i) IN
         IF e > 0 THEN reSubFrom(p, s, e)
         ELSE At(s, i) \o reSubFrom(p, s, i + 1)

\* re.sub(pattern, '', s)
reSub(p, s) == reSubFrom(p, s, 1)

\* re.sub('^<lit>\s+', '', s)
reSubPrefix(lit, s) ==
    IF StartsWithAt(s, 1, lit) /\ MatchWs(s, Len(lit) + 1) > 0
    THEN SubSeq(s, MatchWs(s, Len(lit) + 1), Len(s))
    ELSE s

prefixes_to_remove ==
    << "remind me to", "add task", "add", "create task", "i need to",
       "i have to", "i should", "don't forget to", "remember to" >>

date_references ==
    << [kind |-> "onday", lit |-> ""],
       [kind |-> "lit", lit |-> "tomorrow"],
       [kind |-> "lit", lit |-> "today"],
       [kind |-> "litword", lit |-> "next "],
       [kind |-> "litword", lit |-> "this "],
       [kind |-> "lit", lit |-> "by end of week"],
       [kind |-> "lit", lit |-> "end of week"],
       [kind |-> "lit", lit |-> "by end of month"],
       [kind |-> "lit", lit |-> "end of month"],
       [kind |-> "indays", lit |-> ""],
       [kind |-> "onslash", lit |-> ""] >>

RECURSIVE StripPrefixes(_, _)
StripPrefixes(s, n) ==
    IF n > Len(prefixes_to_remove) THEN s
    ELSE StripPrefixes(reSubPrefix(prefixes_to_remove[n], s), n + 1)

RECURSIVE StripDates(_, _)
StripDates(s, n) ==
    IF n > Len(date_references) THEN s
    ELSE StripDates(reSub(date_references[n], s), n + 1)

extract_task_content(text) ==
    capitalize(strip(StripDates(StripPrefixes(strip(lower(text)), 1), 1)))

(***************************************************************************)
(* datetime: a date is [year, month, day]; arithmetic goes through the    *)
(* proleptic Gregorian ordinal, as datetime's does.                        *)
(***************************************************************************)
IsLeap(y) == (y % 4 = 0 /\ y % 100 # 0) \/ y % 400 = 0

DaysInMonth(y, m) ==
    IF m = 2 THEN (IF IsLeap(y) THEN 29 ELSE 28)
    ELSE IF m \in {4, 6, 9, 11} THEN 30 ELSE 31

DaysBeforeYear(y) ==
    LET p == y - 1 IN p * 365 + (p \div 4) - (p \div 100) + (p \div 400)

RECURSIVE DaysBeforeMonth(_, _)
DaysBeforeMonth(y, m) ==
    IF m = 1 THEN 0 ELSE DaysBeforeMonth(y, m - 1) + DaysInMonth(y, m - 1)

\* date.toordinal()
toordinal(d) == DaysBeforeYear(d.year) + DaysBeforeMonth(d.year, d.month) + d.day

\* date.fromordinal(n), for an ordinal within a year of date d
fromordinal(n, d) ==
    LET y == CHOOSE yy \in (d.year - 1)..(d.year + 1) :
                 DaysBeforeYear(yy) < n /\ n <= DaysBeforeYear(yy + 1)
        r == n - DaysBeforeYear(y)
        m == CHOOSE mm \in 1..12 :
                 DaysBeforeMonth(y, mm) < r /\ r <= DaysBeforeMonth(y, mm) + DaysInMonth(y, mm)
    IN [year |-> y, month |-> m, day |-> r - DaysBeforeMonth(y, m)]

\* d + timedelta(days=k)
AddDays(d, k) == fromordinal(toordinal(d) + k, d)

\* date.weekday(): Monday is 0, Sunday is 6
weekday(d) == (toordinal(d) + 6) % 7

\* str(n) for n >= 0
RECURSIVE IntToStr(_)
IntToStr(n) ==
    IF n < 10 THEN At(DigitChars, n + 1)
    ELSE IntToStr(n \div 10) \o At(DigitChars, (n % 10) + 1)

\* n zero-padded to width w
RECURSIVE Pad(_, _)
Pad(n, w) ==
    IF w = 0 THEN "" ELSE Pad(n \div 10, w - 1) \o At(DigitChars, (n % 10) + 1)

\* int(s) for a string of digits
RECURSIVE StrToInt(_)
StrToInt(s) ==
    IF Len(s) = 0 THEN 0
    ELSE StrToInt(SubSeq(s, 1, Len(s) - 1)) * 10 + (IndexIn(DigitChars, At(s, Len(s))) - 1)

\* d.strftime("%Y-%m-%d")
strftime(d) == Pad(d.year, 4) \o "-" \o Pad(d.month, 2) \o "-" \o Pad(d.day, 2)

\* datetime.strptime(s, "%Y-%m-%d")
strptime(s) ==
    [year |-> StrToInt(SubSeq(s, 1, 4)),
     month |-> StrToInt(SubSeq(s, 6, 7)),
     day |-> StrToInt(SubSeq(s, 9, 10))]

DayNames ==
    <<"Monday", "Tuesday", "Wednesday", "Thursday", "Friday", "Saturday", "Sunday">>

MonthNames ==
    << "January", "February", "March", "April", "May", "June", "July",
       "August", "September", "October", "November", "December" >>

\* d.strftime("%A, %B %d")
friendly_date(d) ==
    DayNames[weekday(d) + 1] \o ", " \o MonthNames[d.month] \o " " \o Pad(d.day, 2)

\* SQL NULL / Python None in a text column
NULL == "NULL"

\* what dateparser.parse(text, PREFER_DATES_FROM future, RELATIVE_BASE now) may
\* give, formatted by strftime: nothing, or a date (here the current day)
DateparserResults(now) == {NULL, strftime(now)}

\* end_of_week without the step from 0 to 7 days
MutEndOfWeekSameDay(now) ==
    strftime(AddDays(now, (6 - weekday(now)) % 7))

\* the "end of week" rule
end_of_week(now) ==
    LET d0 == (6 - weekday(now)) % 7
        days_until_sunday == IF d0 = 0 THEN 7 ELSE d0
    IN strftime(AddDays(now, days_until_sunday))

\* end_of_month taking the month's length for 30 days in December
MutEndOfMonthDecember30(now) ==
    LET last_day ==
            IF now.month = 12 THEN [now EXCEPT !.day = 30]
            ELSE AddDays([now EXCEPT !.month = now.month + 1, !.day = 1], -1)
    IN strftime(last_day)

\* the "end of month" rule
end_of_month(now) ==
    LET last_day ==
            IF now.month = 12 THEN [now EXCEPT !.day = 31]
            ELSE AddDays([now EXCEPT !.month = now.month + 1, !.day = 1], -1)
    IN strftime(last_day)

\* "<phrase>" in text.lower()
Mentions(text, phrase) == Contains(lower(text), phrase)

(***************************************************************************)
(* State.                                                                  *)
(***************************************************************************)
VARIABLES
    tasks,    \* the tasks table, rows in rowid order
    nextId,   \* the next AUTOINCREMENT id of the tasks table
    clock,    \* CURRENT_TIMESTAMP of the latest insert, in seconds
    today,    \* the date of datetime.now()
    req,      \* the request handled last
    resp,     \* its response
    parsed,   \* the latest result of parse_date_from_text
    users,    \* the users table, rows in rowid order
    tokens,   \* the tokens table, rows in rowid order
    cred,     \* the credentials the request handled last presented
    calls     \* per worker process: the /chat request it is handling

vars == <<tasks, nextId, clock, today, req, resp, parsed, users, tokens, cred, calls>>

\* what the task endpoints and parse_date_from_text never touch
authVars == <<users, tokens, cred>>

\* ids of the users table
Users == {1, 2}

\* rows ever inserted into the tasks table
MaxId == 2

LastYear == 2025

Date(y, m, d) == [year |-> y, month |-> m, day |-> d]

\* the day the requests of Spec are made on
StartDates == {Date(2026, 11, 2)}

\* the days parse_date_from_text is applied on in SpecDate
AllDates ==
    {d \in [year : 2023..LastYear, month : 1..12, day : 1..31] :
        d.day <= DaysInMonth(d.year, d.month)}

\* the texts sent to /chat
ChatTexts ==
    { "list", "list done milk", "show today",
      "I finished the report", "done with milk", "delete milk",
      "buy milk", "Add task finish report by end of week", "xyz", "add x",
      "  " }

\* the texts given to parse_date_from_text in SpecDate
DateTexts ==
    { "pay rent by end of month", "End of Month", "finish report by end of week",
      "end of month or end of week", "buy milk" }

\* the texts sent to /chat in SpecMatch
MatchTexts ==
    { "buy milk", "add finish report", "xyz",
      "done xyz buy", "done milk report", "remove report milk" }

AllTexts == ChatTexts \cup DateTexts \cup MatchTexts

\* the task contents the chat texts give
Contents == {extract_task_content(t) : t \in ChatTexts \cup MatchTexts}

(***************************************************************************)
(* The values of the pure text functions on the texts above, tabulated    *)
(* once ( @@ makes the table explicit).                                    *)
(***************************************************************************)
\* text.lower().strip()
TextLower == [t \in AllTexts |-> strip(lower(t))] @@ <<>>

TaskContent == [t \in AllTexts |-> extract_task_content(t)] @@ <<>>

MentionsEndOfWeek == [t \in AllTexts |-> Mentions(t, "end of week")] @@ <<>>

MentionsEndOfMonth == [t \in AllTexts |-> Mentions(t, "end of month")] @@ <<>>

\* parse_date_from_text(text) on the day now, where dp is what dateparser
\* gives for the text
parse_date_from_text(text, now, dp) ==
    IF MentionsEndOfWeek[text] THEN end_of_week(now)
    ELSE IF MentionsEndOfMonth[text] THEN end_of_month(now)
    ELSE dp

None == <<>>

Some(x) == <<x>>

(***************************************************************************)
(* The tasks table and its queries.                                        *)
(***************************************************************************)
\* the characters used, in code point order (SQLite's BINARY collation)
CodePoints ==
    " '-/0123456789ABCDEFGHIJKLMNOPQRSTUVWXYZ_abcdefghijklmnopqrstuvwxyz"

RECURSIVE StrLess(_, _)
StrLess(a, b) ==
    IF Len(b) = 0 THEN FALSE
    ELSE IF Len(a) = 0 THEN TRUE
    ELSE IF At(a, 1) = At(b, 1) THEN StrLess(SubSeq(a, 2, Len(a)), SubSeq(b, 2, Len(b)))
    ELSE IndexIn(CodePoints, At(a, 1)) < IndexIn(CodePoints, At(b, 1))

\* SQLite's order of a nullable text column: NULL first
NullableLess(a, b) ==
    IF a = NULL THEN b # NULL
    ELSE IF b = NULL THEN FALSE
    ELSE StrLess(a, b)

LessCreated(a, b) == a.created_at < b.created_at

LessCreatedDesc(a, b) == a.created_at > b.created_at

LessDueCreated(a, b) ==
    \/ NullableLess(a.due_date, b.due_date)
    \/ a.due_date = b.due_date /\ a.created_at < b.created_at

LessStatusDueCreated(a, b) ==
    \/ StrLess(a.status, b.status)
    \/ a.status = b.status /\ LessDueCreated(a, b)

\* whether row a sorts before row b under an ORDER BY clause
RowLess(order, a, b) ==
    CASE order = "created_at" -> LessCreated(a, b)
      [] order = "created_at DESC" -> LessCreatedDesc(a, b)
      [] order = "due_date, created_at" -> LessDueCreated(a, b)
      [] order = "status, due_date, created_at" -> LessStatusDueCreated(a, b)

\* the results an ORDER BY may give: every arrangement of the rows in which no
\* row is followed by one that sorts before it
OrderBy(rows, order) ==
    LET n == Len(rows)
        perms == {q \in [1..n -> 1..n] :
                     /\ \A i, j \in 1..n : q[i] = q[j] => i = j
                     /\ \A i \in 1..(n - 1) : ~RowLess(order, rows[q[i + 1]], rows[q[i]])}
    IN {[i \in 1..n |-> rows[q[i]]] : q \in perms}

\* ... WHERE user_id = ? AND due_date = ? AND status = 'pending' ORDER BY created_at
SelectToday(user_id, day) ==
    OrderBy(SelectSeq(tasks, LAMBDA r : r.user_id = user_id /\ r.due_date = day
                                        /\ r.status = "pending"),
            "created_at")

\* ... WHERE user_id = ? AND status = 'done' ORDER BY created_at DESC
SelectDone(user_id) ==
    OrderBy(SelectSeq(tasks, LAMBDA r : r.user_id = user_id /\ r.status = "done"),
            "created_at DESC")

\* SelectPendingOrdered without its ORDER BY
MutSelectPendingUnordered(user_id) ==
    {SelectSeq(tasks, LAMBDA r : r.user_id = user_id /\ r.status = "pending")}

\* ... WHERE user_id = ? AND status = 'pending' ORDER BY due_date, created_at
SelectPendingOrdered(user_id) ==
    OrderBy(SelectSeq(tasks, LAMBDA r : r.user_id = user_id /\ r.status = "pending"),
            "due_date, created_at")

\* SelectPending without its status filter
MutSelectAnyStatus(user_id) == SelectSeq(tasks, LAMBDA r : r.user_id = user_id)

\* SELECT * FROM tasks WHERE user_id = ? AND status = 'pending'
SelectPending(user_id) ==
    SelectSeq(tasks, LAMBDA r : r.user_id = user_id /\ r.status = "pending")

\* SELECT ... FROM tasks WHERE user_id = ? ORDER BY status, due_date, created_at
SelectAll(user_id) ==
    OrderBy(SelectSeq(tasks, LAMBDA r : r.user_id = user_id),
            "status, due_date, created_at")

\* UpdateStatus without its id filter
MutUpdateStatusOfUser(status, id, user_id) ==
    [i \in 1..Len(tasks) |->
        IF tasks[i].user_id = user_id
        THEN [tasks[i] EXCEPT !.status = status]
        ELSE tasks[i]]

\* UPDATE tasks SET status = ? WHERE id = ? AND user_id = ?
UpdateStatus(status, id, user_id) ==
    [i \in 1..Len(tasks) |->
        IF tasks[i].id = id /\ tasks[i].user_id = user_id
        THEN [tasks[i] EXCEPT !.status = status]
        ELSE tasks[i]]

\* DeleteWhere without its user_id filter
MutDeleteById(id, user_id) == SelectSeq(tasks, LAMBDA r : r.id # id)

\* DELETE FROM tasks WHERE id = ? AND user_id = ?
DeleteWhere(id, user_id) ==
    SelectSeq(tasks, LAMBDA r : ~(r.id = id /\ r.user_id = user_id))

\* INSERT INTO tasks (user_id, content, status, due_date) VALUES (?, ?, 'pending', ?)
InsertTask(user_id, content, due_date, now) ==
    Append(tasks, [id |-> nextId, user_id |-> user_id, content |-> content,
                   status |-> "pending", due_date |-> due_date, created_at |-> now])

\* Task(**dict(row))
Task(row) ==
    [id |-> row.id, content |-> row.content, status |-> row.status,
     due_date |-> row.due_date, created_at |-> row.created_at]

Tasks(rows) == [i \in 1..Len(rows) |-> Task(rows[i])]

AssistantResponse(message, task_list, action) ==
    [code |-> 200, message |-> message, tasks |-> task_list, action |-> action]

HTTPException(code, detail) == [code |-> code, detail |-> detail]

(***************************************************************************)
(* process_natural_language.                                               *)
(***************************************************************************)
ListWords == {"show", "list", "what's", "what do i have", "my tasks", "view"}

CompleteWords == {"done", "finished", "complete", "completed"}

DeleteWords == {"delete", "remove", "cancel"}

\* Intent with the complete keywords tested before the list keywords
MutIntentCompleteFirst(text_lower) ==
    IF ContainsAny(text_lower, CompleteWords) THEN "complete"
    ELSE IF ContainsAny(text_lower, ListWords) THEN "list"
    ELSE IF ContainsAny(text_lower, DeleteWords) THEN "delete"
    ELSE "add"

\* the branch of the if / elif chain that is taken
Intent(text_lower) ==
    IF ContainsAny(text_lower, ListWords) THEN "list"
    ELSE IF ContainsAny(text_lower, CompleteWords) THEN "complete"
    ELSE IF ContainsAny(text_lower, DeleteWords) THEN "delete"
    ELSE "add"

\* any(word in text_lower for word in task_words if len(word) > 3)
WordMatch(content, text_lower) ==
    LET task_words == split(lower(content)) IN
    \E i \in 1..Len(task_words) :
        Len(task_words[i]) > 3 /\ Contains(text_lower, task_words[i])

\* TooShort testing for empty content only
MutTooShortEmptyOnly(task_content) == Len(task_content) = 0

\* TooShort with a threshold of 4 characters
MutTooShortUnder4(task_content) == Len(task_content) = 0 \/ Len(task_content) < 4

\* not task_content or len(task_content) < 2
TooShort(task_content) == Len(task_content) = 0 \/ Len(task_content) < 2

\* the query of the list branch: 'today' in text_lower, else 'done' in
\* text_lower or 'completed' in text_lower, else the pending tasks
ListKind(text_lower) ==
    IF Contains(text_lower, "today") THEN "today"
    ELSE IF Contains(text_lower, "done") \/ Contains(text_lower, "completed") THEN "done"
    ELSE "pending"

IntentOf == [t \in AllTexts |-> Intent(TextLower[t])] @@ <<>>

ListKindOf == [t \in AllTexts |-> ListKind(TextLower[t])] @@ <<>>

WordMatchOf ==
    [c \in Contents |-> [t \in AllTexts |-> WordMatch(c, TextLower[t])] @@ <<>>] @@ <<>>

TooShortOf == [t \in AllTexts |-> TooShort(TaskContent[t])] @@ <<>>

\* the rows the list branch may fetch
ListQuery(text, user_id) ==
    CASE ListKindOf[text] = "today" -> SelectToday(user_id, strftime(today))
      [] ListKindOf[text] = "done" -> SelectDone(user_id)
      [] ListKindOf[text] = "pending" -> SelectPendingOrdered(user_id)

\* MatchedTask running through pending_tasks to its end: the last match wins
MutMatchedTaskLast(pending_tasks, text) ==
    LET hits == {i \in 1..Len(pending_tasks) : WordMatchOf[pending_tasks[i].content][text]}
    IN IF hits = {} THEN 0 ELSE CHOOSE i \in hits : \A j \in hits : i >= j

\* the index in pending_tasks of matched_task, 0 for None
MatchedTask(pending_tasks, text) ==
    LET hits == {i \in 1..Len(pending_tasks) : WordMatchOf[pending_tasks[i].content][text]}
    IN IF hits = {} THEN 0 ELSE CHOOSE i \in hits : \A j \in hits : i <= j

ListResponse(rows) ==
    IF Len(rows) > 0
    THEN AssistantResponse("Here are your tasks (" \o IntToStr(Len(rows)) \o " total):",
                           Some(Tasks(rows)), "list")
    ELSE AssistantResponse("You have no pending tasks. Nice work!", Some(<<>>), "list")

\* NoMatchResponse without the pending tasks
MutNoMatchResponseNoTasks(message, pending_tasks) ==
    AssistantResponse(message, None, "list")

\* the response of the complete and delete branches when matched_task is None
NoMatchResponse(message, pending_tasks) ==
    AssistantResponse(message, Some(Tasks(pending_tasks)), "list")

AddMessage(task_content, due_date) ==
    IF due_date # NULL
    THEN "Got it! Added: '" \o task_content \o "' due " \o friendly_date(strptime(due_date))
    ELSE "Got it! Added: '" \o task_content \o "' (no due date)"

process_natural_language(text, user_id) ==
    LET intent == IntentOf[text]
        pending_tasks == SelectPending(user_id)
        m == MatchedTask(pending_tasks, text)
        task_content == TaskContent[text]
    IN
    CASE intent = "list" ->
            /\ \E rows \in ListQuery(text, user_id) : resp' = ListResponse(rows)
            /\ UNCHANGED <<tasks, nextId, clock>>
      [] intent = "complete" ->
            IF m > 0
            THEN /\ tasks' = UpdateStatus("done", pending_tasks[m].id, user_id)
                 /\ resp' = AssistantResponse(
                        "Great job! Marked '" \o pending_tasks[m].content \o "' as done!",
                        None, "complete")
                 /\ UNCHANGED <<nextId, clock>>
            ELSE /\ resp' = NoMatchResponse(
                        "I couldn't find that task. Here are your pending tasks:",
                        pending_tasks)
                 /\ UNCHANGED <<tasks, nextId, clock>>
      [] intent = "delete" ->
            IF m > 0
            THEN /\ tasks' = DeleteWhere(pending_tasks[m].id, user_id)
                 /\ resp' = AssistantResponse(
                        "Deleted task: '" \o pending_tasks[m].content \o "'",
                        None, "delete")
                 /\ UNCHANGED <<nextId, clock>>
            ELSE /\ resp' = NoMatchResponse(
                        "I couldn't find that task to delete. Here are your tasks:",
                        pending_tasks)
                 /\ UNCHANGED <<tasks, nextId, clock>>
      [] intent = "add" ->
            IF TooShortOf[text]
            THEN /\ resp' = AssistantResponse(
                        "I didn't quite catch that. Try something like 'Remind me to call mom tomorrow'",
                        None, "error")
                 /\ UNCHANGED <<tasks, nextId, clock>>
            ELSE /\ nextId <= MaxId
                 /\ \E dp \in DateparserResults(today), dt \in {0, 1} :
                      LET due_date == parse_date_from_text(text, today, dp) IN
                      /\ clock' = clock + dt
                      /\ tasks' = InsertTask(user_id, task_content, due_date, clock + dt)
                      /\ resp' = AssistantResponse(AddMessage(task_content, due_date),
                                                   None, "add")
                 /\ nextId' = nextId + 1

(***************************************************************************)
(* The endpoints, each on behalf of the user get_current_user gives.       *)
(***************************************************************************)
Request(op, user_id, text, task_id) ==
    [op |-> op, user_id |-> user_id, text |-> text, task_id |-> task_id]

\* POST /chat
Chat(user_id, text) ==
    /\ req' = Request("chat", user_id, text, 0)
    /\ IF Len(TextLower[text]) = 0
       THEN /\ resp' = HTTPException(400, "Please enter a command")
            /\ UNCHANGED <<tasks, nextId, clock>>
       ELSE process_natural_language(text, user_id)
    /\ UNCHANGED <<today, parsed>>

\* GET /tasks
GetAllTasks(user_id) ==
    /\ req' = Request("get_all_tasks", user_id, "", 0)
    /\ \E rows \in SelectAll(user_id) : resp' = [code |-> 200, tasks |-> Tasks(rows)]
    /\ UNCHANGED <<tasks, nextId, clock, today, parsed>>

\* DELETE /tasks/{task_id}
DeleteTask(user_id, task_id) ==
    LET after == DeleteWhere(task_id, user_id)
        affected == Len(tasks) - Len(after)
    IN /\ req' = Request("delete_task", user_id, "", task_id)
       /\ tasks' = after
       /\ resp' = IF affected = 0 THEN HTTPException(404, "Task not found")
                  ELSE [code |-> 200, message |-> "Task deleted successfully"]
       /\ UNCHANGED <<nextId, clock, today, parsed>>

\* PUT /tasks/{task_id}/toggle
ToggleTaskStatus(user_id, task_id) ==
    LET found == SelectSeq(tasks, LAMBDA r : r.id = task_id /\ r.user_id = user_id)
        new_status == IF found[1].status = "pending" THEN "done" ELSE "pending"
    IN /\ req' = Request("toggle_task_status", user_id, "", task_id)
       /\ IF Len(found) = 0
          THEN /\ resp' = HTTPException(404, "Task not found")
               /\ UNCHANGED tasks
          ELSE /\ tasks' = UpdateStatus(new_status, task_id, user_id)
               /\ resp' = [code |-> 200,
                           message |-> "Task status changed to " \o new_status,
                           new_status |-> new_status]
       /\ UNCHANGED <<nextId, clock, today, parsed>>

\* parse_date_from_text applied to a text on the current day
ParseDate(text) ==
    /\ \E dp \in DateparserResults(today) :
          parsed' = parse_date_from_text(text, today, dp)
    /\ req' = Request("parse_date_from_text", 0, text, 0)
    /\ UNCHANGED <<tasks, nextId, clock, today, resp>>

NoRequest == Request("", 0, "", 0)

(***************************************************************************)
(* /chat served by worker processes on one database file.  chat is an      *)
(* async def that awaits nothing, so a worker's event loop runs a handler  *)
(* from its start to its return before it starts the next; the handlers    *)
(* of different workers interleave at their statements on the database.    *)
(* A complete or delete request with a match makes two: the SELECT, whose  *)
(* rows the loop then searches, and the UPDATE or DELETE with its commit.  *)
(* Every other /chat request makes one.                                    *)
(***************************************************************************)
Workers == {"w1", "w2"}

\* a worker between two requests
Idle == [pc |-> "idle", user_id |-> 0, text |-> "", matched_task |-> None,
         response |-> [code |-> 0]]

NoCalls == [w \in Workers |-> Idle]

\* complete_matched with the UPDATE guarded by the status of the row, and the
\* no-match answer when it changes no row
MutCompleteMatchedGuarded(matched_task, user_id) ==
    IF \E i \in 1..Len(tasks) : tasks[i].id = matched_task.id /\ tasks[i].status = "pending"
    THEN [table |-> UpdateStatus("done", matched_task.id, user_id),
          response |-> AssistantResponse(
              "Great job! Marked '" \o matched_task.content \o "' as done!",
              None, "complete")]
    ELSE [table |-> tasks,
          response |-> NoMatchResponse(
              "I couldn't find that task. Here are your pending tasks:",
              SelectPending(user_id))]

\* if matched_task: of the complete branch: the table after the UPDATE and its
\* commit, and the response
complete_matched(matched_task, user_id) ==
    [table |-> UpdateStatus("done", matched_task.id, user_id),
     response |-> AssistantResponse(
         "Great job! Marked '" \o matched_task.content \o "' as done!",
         None, "complete")]

\* if matched_task: of the delete branch
delete_matched(matched_task, user_id) ==
    [table |-> DeleteWhere(matched_task.id, user_id),
     response |-> AssistantResponse(
         "Deleted task: '" \o matched_task.content \o "'", None, "delete")]

\* an idle worker takes a /chat request and runs it up to its last statement
\* on the database
ChatBegin(w, user_id, text) ==
    LET pending_tasks == SelectPending(user_id)
        m == MatchedTask(pending_tasks, text)
    IN /\ calls[w].pc = "idle"
       /\ IF IntentOf[text] \in {"complete", "delete"} /\ m > 0
          THEN /\ calls' = [calls EXCEPT ![w] =
                                [pc |-> "matched", user_id |-> user_id, text |-> text,
                                 matched_task |-> Some(pending_tasks[m]),
                                 response |-> [code |-> 0]]]
               /\ req' = Request("chat", user_id, text, 0)
               /\ UNCHANGED <<tasks, nextId, clock, today, resp, parsed>>
          ELSE /\ Chat(user_id, text)
               /\ calls' = [calls EXCEPT ![w] = Idle]
       /\ UNCHANGED authVars

\* the worker executes the UPDATE or DELETE for its matched_task, commits and
\* returns
ChatCommit(w) ==
    LET c == calls[w]
        done == IF IntentOf[c.text] = "complete"
                THEN complete_matched(c.matched_task[1], c.user_id)
                ELSE delete_matched(c.matched_task[1], c.user_id)
    IN /\ c.pc = "matched"
       /\ tasks' = done.table
       /\ resp' = done.response
       /\ req' = Request("chat", c.user_id, c.text, 0)
       /\ calls' = [calls EXCEPT ![w] = [c EXCEPT !.pc = "idle",
                                                  !.response = done.response]]
       /\ UNCHANGED <<nextId, clock, today, parsed, authVars>>

\* the texts sent to /chat in SpecRace
RaceTexts == {"buy milk", "done with milk", "delete milk"}

NextRace ==
    \/ \E w \in Workers, u \in Users, t \in RaceTexts : ChatBegin(w, u, t)
    \/ \E w \in Workers : ChatCommit(w)

(***************************************************************************)
(* Accounts and session tokens.  Time is counted in whole days: today is   *)
(* the day of datetime.now(), and a token's expires is a day.              *)
(***************************************************************************)
TOKEN_EXPIRATION_DAYS == 7

SECRET_KEY == "SECRET_KEY"

\* hashlib.sha256(...).hexdigest(): equal inputs give equal digests, different
\* inputs different ones
sha256(data) == <<"sha256", data>>

\* hash_password, with the salt secrets.token_hex(16) gave: "salt$hash"
hash_password(password, salt) ==
    [salt |-> salt, hash_value |-> sha256(<<password, salt>>)]

verify_password(password, stored_hash) ==
    sha256(<<password, stored_hash.salt>>) = stored_hash.hash_value

\* the payload of a token; random is what secrets.token_hex(8) gave
Payload(user_id, username, now, random) ==
    [user_id |-> user_id, username |-> username,
     expires |-> AddDays(now, TOKEN_EXPIRATION_DAYS), random |-> random]

\* the signature of a payload under a key
Sign(payload, key) == sha256(<<payload, key>>)

\* a token "<payload_b64>.<signature>", as the parts token.split(".") gives
MakeToken(payload) == <<payload, Sign(payload, SECRET_KEY)>>

\* SELECT id FROM tokens WHERE token = ? finds a row
Registered(token) == \E i \in 1..Len(tokens) : tokens[i].token = token

\* verify_token: the payload, or None
verify_token(token) ==
    IF Len(token) # 2 THEN None
    ELSE LET payload == token[1]
             signature == token[2]
         IN IF signature # Sign(payload, SECRET_KEY) THEN None
            ELSE IF toordinal(today) > toordinal(payload.expires) THEN None
            ELSE IF ~Registered(token) THEN None
            ELSE Some(payload)

\* get_current_user: the payload, or the 401 it raises
get_current_user(credentials) ==
    IF credentials = None THEN HTTPException(401, "Not authenticated")
    ELSE LET payload == verify_token(credentials[1])
         IN IF payload = None THEN HTTPException(401, "Invalid or expired token")
            ELSE [code |-> 200, payload |-> payload[1]]

AuthResponse(message, token, username) ==
    [code |-> 200, message |-> message, token |-> token, username |-> username]

\* create_token: the INSERT INTO tokens; the token column is UNIQUE
InsertToken(user_id, token) ==
    Append(tokens, [id |-> Len(tokens) + 1, user_id |-> user_id, token |-> token,
                    expires_at |-> token[1].expires])

\* rows ever inserted into the tokens table
MaxTokens == 2

\* the last day requests are made on, counted from the first
MaxDays == 8

\* what the callers send
Usernames == {"Ann", "bo"}

Passwords == {"secret1", "pw"}

Salts == {"5a1f"}

Randoms == {"c0ffee", "decade"}

\* the accounts of the users of Spec, and one token of each
RegisteredUsers ==
    << [id |-> 1, username |-> "ann", password_hash |-> hash_password("secret1", "5a1f")],
       [id |-> 2, username |-> "bob", password_hash |-> hash_password("secret1", "5a1f")] >>

IssuedTokens(now) ==
    << [id |-> 1, user_id |-> 1, token |-> MakeToken(Payload(1, "ann", now, "c0ffee")),
        expires_at |-> AddDays(now, TOKEN_EXPIRATION_DAYS)],
       [id |-> 2, user_id |-> 2, token |-> MakeToken(Payload(2, "bob", now, "decade")),
        expires_at |-> AddDays(now, TOKEN_EXPIRATION_DAYS)] >>

\* the credentials a caller may present: none, a token it was given, a token
\* signed with another key, a token with another payload, a string with no "."
Credentials ==
    {None, Some(<<"garbage">>)}
      \cup {Some(tokens[i].token) : i \in 1..Len(tokens)}
      \cup {Some(<<tokens[i].token[1], Sign(tokens[i].token[1], "guess")>>) :
                i \in 1..Len(tokens)}
      \cup {Some(<<[tokens[i].token[1] EXCEPT !.user_id = 3 - @], tokens[i].token[2]>>) :
                i \in 1..Len(tokens)}

\* create_token, then the response of /register and /login
IssueToken(user_id, username, message) ==
    \E random \in Randoms :
        LET token == MakeToken(Payload(user_id, username, today, random)) IN
        IF Registered(token)
        THEN /\ resp' = HTTPException(500, "Internal Server Error")
             /\ UNCHANGED tokens
        ELSE /\ Len(tokens) < MaxTokens
             /\ tokens' = InsertToken(user_id, token)
             /\ resp' = AuthResponse(message, token, username)

\* POST /register
Register(username, password) ==
    /\ req' = Request("register", 0, "", 0)
    /\ cred' = None
    /\ IF Len(username) < 3
       THEN /\ resp' = HTTPException(400, "Username must be at least 3 characters")
            /\ UNCHANGED <<users, tokens>>
       ELSE IF Len(password) < 6
       THEN /\ resp' = HTTPException(400, "Password must be at least 6 characters")
            /\ UNCHANGED <<users, tokens>>
       ELSE IF \E i \in 1..Len(users) : users[i].username = lower(username)
       THEN /\ resp' = HTTPException(400, "Username already taken")
            /\ UNCHANGED <<users, tokens>>
       ELSE /\ \E salt \in Salts :
                 users' = Append(users, [id |-> Len(users) + 1,
                                         username |-> lower(username),
                                         password_hash |-> hash_password(password, salt)])
            /\ IssueToken(Len(users) + 1, lower(username), "Account created successfully!")
    /\ UNCHANGED <<tasks, nextId, clock, today, parsed>>

\* POST /login
Login(username, password) ==
    LET row == SelectSeq(users, LAMBDA r : r.username = lower(username)) IN
    /\ req' = Request("login", 0, "", 0)
    /\ cred' = None
    /\ IF Len(row) = 0 \/ ~verify_password(password, row[1].password_hash)
       THEN /\ resp' = HTTPException(401, "Invalid username or password")
            /\ UNCHANGED tokens
       ELSE IssueToken(row[1].id, lower(username), "Login successful!")
    /\ UNCHANGED <<tasks, nextId, clock, today, parsed, users>>

\* POST /logout
Logout(credentials) ==
    LET current_user == get_current_user(credentials) IN
    /\ req' = Request("logout", 0, "", 0)
    /\ cred' = credentials
    /\ resp' = IF current_user.code = 200
               THEN [code |-> 200, message |-> "Logged out successfully"]
               ELSE current_user
    /\ UNCHANGED <<tasks, nextId, clock, today, parsed, users, tokens>>

\* GET /tasks with the credentials of the caller
GetAllTasksWith(credentials) ==
    LET current_user == get_current_user(credentials) IN
    /\ cred' = credentials
    /\ IF current_user.code = 200
       THEN GetAllTasks(current_user.payload.user_id)
       ELSE /\ req' = Request("get_all_tasks", 0, "", 0)
            /\ resp' = current_user
            /\ UNCHANGED <<tasks, nextId, clock, today, parsed>>
    /\ UNCHANGED <<users, tokens>>

\* a day passes
AdvanceDay ==
    /\ \E d \in StartDates : toordinal(today) - toordinal(d) < MaxDays
    /\ today' = AddDays(today, 1)
    /\ UNCHANGED <<tasks, nextId, clock, req, resp, parsed, users, tokens, cred>>

InitAuth ==
    /\ tasks = <<>>
    /\ nextId = 1
    /\ clock = 0
    /\ today \in StartDates
    /\ req = NoRequest
    /\ resp = [code |-> 0]
    /\ parsed = NULL
    /\ users = <<>>
    /\ tokens = <<>>
    /\ cred = None
    /\ calls = NoCalls

NextAuth ==
    \/ \E u \in Usernames, p \in Passwords : Register(u, p) /\ UNCHANGED calls
    \/ \E u \in Usernames, p \in Passwords : Login(u, p) /\ UNCHANGED calls
    \/ \E c \in Credentials : Logout(c) /\ UNCHANGED calls
    \/ \E c \in Credentials : GetAllTasksWith(c) /\ UNCHANGED calls
    \/ AdvanceDay /\ UNCHANGED calls

SpecAuth == InitAuth /\ [][NextAuth]_vars

Init ==
    /\ tasks = <<>>
    /\ nextId = 1
    /\ clock = 0
    /\ today \in StartDates
    /\ req = NoRequest
    /\ resp = [code |-> 0]
    /\ parsed = NULL
    /\ \E d \in StartDates : users = RegisteredUsers /\ tokens = IssuedTokens(d)
    /\ cred = None
    /\ calls = NoCalls

Next ==
    \/ \E u \in Users, t \in ChatTexts : Chat(u, t) /\ UNCHANGED <<authVars, calls>>
    \/ \E u \in Users : GetAllTasks(u) /\ UNCHANGED <<authVars, calls>>
    \/ \E u \in Users, id \in 1..MaxId : DeleteTask(u, id) /\ UNCHANGED <<authVars, calls>>
    \/ \E u \in Users, id \in 1..MaxId :
          ToggleTaskStatus(u, id) /\ UNCHANGED <<authVars, calls>>

Spec == Init /\ [][Next]_vars

SpecRace == Init /\ [][NextRace]_vars

InitDate ==
    /\ tasks = <<>>
    /\ nextId = 1
    /\ clock = 0
    /\ today \in AllDates
    /\ req = NoRequest
    /\ resp = [code |-> 0]
    /\ parsed = NULL
    /\ users = <<>>
    /\ tokens = <<>>
    /\ cred = None
    /\ calls = NoCalls

NextDate == \E t \in DateTexts : ParseDate(t) /\ UNCHANGED <<authVars, calls>>

SpecDate == InitDate /\ [][NextDate]_vars

\* the /chat requests the task matcher is studied on
NextMatch ==
    \E u \in Users, t \in MatchTexts : Chat(u, t) /\ UNCHANGED <<authVars, calls>>

SpecMatch == Init /\ [][NextMatch]_vars

(***************************************************************************)
(* What the properties below read off a step: the request req' handled in *)
(* it, the response resp', the table before (tasks) and after (tasks').    *)
(***************************************************************************)
\* a /chat request that reached process_natural_language
Resolved(q, r) == q.op = "chat" /\ r.code = 200

\* the tasks a response carries
Returned(q, r) ==
    IF q.op = "chat" /\ r.code = 200 /\ r.tasks # None THEN r.tasks[1]
    ELSE IF q.op = "get_all_tasks" THEN r.tasks
    ELSE <<>>

\* the branch of the resolver a response comes from
Branch(r) ==
    IF r.action \in {"add", "error"} THEN "add"
    ELSE IF r.action = "complete" THEN "complete"
    ELSE IF r.action = "delete" THEN "delete"
    ELSE IF r.message = "I couldn't find that task. Here are your pending tasks:"
    THEN "complete"
    ELSE IF r.message = "I couldn't find that task to delete. Here are your tasks:"
    THEN "delete"
    ELSE "list"

\* the intent the ordered keyword policy gives a normalized text
PolicyIntent(tl) ==
    IF \E w \in {"show", "list", "what's", "what do i have", "my tasks", "view"} :
          Contains(tl, w)
    THEN "list"
    ELSE IF \E w \in {"done", "finished", "complete", "completed"} : Contains(tl, w)
    THEN "complete"
    ELSE IF \E w \in {"delete", "remove", "cancel"} : Contains(tl, w)
    THEN "delete"
    ELSE "add"

PolicyIntentOf ==
    [t \in ChatTexts \cup MatchTexts |-> PolicyIntent(strip(lower(t)))] @@ <<>>

\* the rows of an owner, and the pending ones, in table order
RowsOf(tbl, u) == SelectSeq(tbl, LAMBDA r : r.user_id = u)

PendingOf(tbl, u) == SelectSeq(tbl, LAMBDA r : r.user_id = u /\ r.status = "pending")

\* some task of owner u with the given status has a content word in the text
MatchIn(tbl, u, status, text) ==
    \E i \in 1..Len(tbl) :
        /\ tbl[i].user_id = u
        /\ tbl[i].status = status
        /\ WordMatchOf[tbl[i].content][text]

\* the table without its i-th row
Without(tbl, i) == SubSeq(tbl, 1, i - 1) \o SubSeq(tbl, i + 1, Len(tbl))

(***************************************************************************)
(* C1  Owner isolation: a request made for owner A leaves the rows of      *)
(* every other owner B as they were (none changed, none deleted) and      *)
(* returns only tasks that are rows of A.                                  *)
(***************************************************************************)
OwnerIsolation ==
    [][\A b \in Users :
          b # req'.user_id =>
             /\ RowsOf(tasks', b) = RowsOf(tasks, b)
             /\ \A i \in 1..Len(Returned(req', resp')) :
                   \A j \in 1..Len(tasks) :
                      tasks[j].id = Returned(req', resp')[i].id => tasks[j].user_id # b]_vars

\* a delete request of one owner succeeded while another owner holds a
\* pending task that the same text matches
OwnerIsolationWitness ==
    /\ Resolved(req, resp)
    /\ resp.action = "delete"
    /\ \E b \in Users : b # req.user_id /\ MatchIn(tasks, b, "pending", req.text)

(***************************************************************************)
(* C2  Every resolved text is answered from exactly the branch the        *)
(* ordered policy list, complete, delete, add names; a text answered from *)
(* the list branch leaves the table as it was.                             *)
(***************************************************************************)
IntentFirstMatchWins ==
    [][Resolved(req', resp') =>
          /\ Branch(resp') = PolicyIntentOf[req'.text]
          /\ PolicyIntentOf[req'.text] = "list" => tasks' = tasks]_vars

\* a text with a list keyword and "done" was answered while its owner holds a
\* pending task the text matches
IntentFirstMatchWinsWitness ==
    /\ Resolved(req, resp)
    /\ req.text = "list done milk"
    /\ resp.action = "list"
    /\ MatchIn(tasks, req.user_id, "pending", req.text)

(***************************************************************************)
(* C3  A complete or delete request with a matching pending task of the   *)
(* owner changes exactly one row: complete sets one pending row of the    *)
(* owner to done, delete removes one; every other row stays as it was,    *)
(* and the action is complete or delete.                                   *)
(***************************************************************************)
MatchChangesOneTask ==
    [][(/\ Resolved(req', resp')
        /\ PolicyIntentOf[req'.text] \in {"complete", "delete"}
        /\ MatchIn(tasks, req'.user_id, "pending", req'.text)) =>
          /\ resp'.action = PolicyIntentOf[req'.text]
          /\ \E i \in 1..Len(tasks) :
                /\ tasks[i].user_id = req'.user_id
                /\ tasks[i].status = "pending"
                /\ WordMatchOf[tasks[i].content][req'.text]
                /\ tasks' = IF PolicyIntentOf[req'.text] = "complete"
                            THEN [tasks EXCEPT ![i].status = "done"]
                            ELSE Without(tasks, i)]_vars

\* a complete request succeeded and a second task of the owner that the text
\* matches is still pending
MatchChangesOneTaskWitness ==
    /\ Resolved(req, resp)
    /\ resp.action = "complete"
    /\ MatchIn(tasks, req.user_id, "pending", req.text)
    /\ MatchIn(tasks, req.user_id, "done", req.text)

(***************************************************************************)
(* C4  A complete or delete request that matches no pending task of the   *)
(* owner is answered with action list and the owner's pending tasks, and  *)
(* the table stays as it was.                                              *)
(***************************************************************************)
NoMatchListsPending ==
    [][(/\ req'.op = "chat"
        /\ PolicyIntentOf[req'.text] \in {"complete", "delete"}
        /\ ~MatchIn(tasks, req'.user_id, "pending", req'.text)) =>
          /\ resp'.code = 200
          /\ resp'.action = "list"
          /\ resp'.tasks = Some(Tasks(PendingOf(tasks, req'.user_id)))
          /\ tasks' = tasks]_vars

\* a delete request found no match although its owner has pending tasks
NoMatchListsPendingWitness ==
    /\ Resolved(req, resp)
    /\ PolicyIntentOf[req.text] = "delete"
    /\ resp.action = "list"
    /\ Len(PendingOf(tasks, req.user_id)) > 0

(***************************************************************************)
(* C5  An add request whose extracted content is empty or shorter than 2  *)
(* characters gives action error and leaves the table as it was; any      *)
(* other add request gives action add and appends exactly one row: the    *)
(* caller's, pending, with the extracted content.                          *)
(***************************************************************************)
AddValidatesContent ==
    [][(Resolved(req', resp') /\ PolicyIntentOf[req'.text] = "add") =>
          IF Len(TaskContent[req'.text]) < 2
          THEN resp'.action = "error" /\ tasks' = tasks
          ELSE /\ resp'.action = "add"
               /\ Len(tasks') = Len(tasks) + 1
               /\ SubSeq(tasks', 1, Len(tasks)) = tasks
               /\ tasks'[Len(tasks')].user_id = req'.user_id
               /\ tasks'[Len(tasks')].status = "pending"
               /\ tasks'[Len(tasks')].content = TaskContent[req'.text]]_vars

\* an add request was refused for its one-character content while the table
\* holds rows
AddValidatesContentWitness ==
    /\ Resolved(req, resp)
    /\ req.text = "add x"
    /\ resp.action = "error"
    /\ Len(tasks) > 0

(***************************************************************************)
(* C6  As claimed: resolving "xyz" gives action error (and so persists    *)
(* nothing).                                                               *)
(***************************************************************************)
XyzIsRefused ==
    (Resolved(req, resp) /\ req.text = "xyz") => resp.action = "error"

(***************************************************************************)
(* C6  As the code has it: resolving "xyz" gives action add and appends   *)
(* one pending row of the caller with content "Xyz"; the table grows by   *)
(* one row.                                                                *)
(***************************************************************************)
XyzIsAdded ==
    [][(Resolved(req', resp') /\ req'.text = "xyz") =>
          /\ resp'.action = "add"
          /\ Len(tasks') = Len(tasks) + 1
          /\ SubSeq(tasks', 1, Len(tasks)) = tasks
          /\ tasks'[Len(tasks')].content = "Xyz"
          /\ tasks'[Len(tasks')].user_id = req'.user_id
          /\ tasks'[Len(tasks')].status = "pending"]_vars

\* "xyz" was resolved and its task is the latest row
XyzIsAddedWitness ==
    /\ Resolved(req, resp)
    /\ req.text = "xyz"
    /\ resp.action = "add"
    /\ Len(tasks) > 0
    /\ tasks[Len(tasks)].content = "Xyz"

(***************************************************************************)
(* C7  The order of the default list: by due date ascending, rows without *)
(* a due date first, then by creation time.                                *)
(***************************************************************************)
SortedByDueThenCreated(ts) ==
    \A i, j \in 1..Len(ts) :
        i < j =>
           \/ ts[i].due_date = NULL /\ ts[j].due_date # NULL
           \/ ts[i].due_date # NULL /\ ts[j].due_date # NULL
              /\ StrLess(ts[i].due_date, ts[j].due_date)
           \/ ts[i].due_date = ts[j].due_date /\ ts[i].created_at <= ts[j].created_at

\* ts holds exactly the pending tasks of owner u
ExactlyPendingOf(ts, tbl, u) ==
    /\ Len(ts) = Len(PendingOf(tbl, u))
    /\ {ts[i] : i \in 1..Len(ts)} = {Task(tbl[i]) : i \in {j \in 1..Len(tbl) :
                                        tbl[j].user_id = u /\ tbl[j].status = "pending"}}

DueDateKeywords == {"today", "tomorrow", "end of week", "end of month"}

\* the text contains "list" and no due-date keyword
PlainListOf ==
    [t \in ChatTexts |->
        /\ Contains(strip(lower(t)), "list")
        /\ ~\E w \in DueDateKeywords : Contains(strip(lower(t)), w)] @@ <<>>

\* ... and neither "done" nor "completed"
PendingListOf ==
    [t \in ChatTexts |->
        /\ PlainListOf[t]
        /\ ~Contains(strip(lower(t)), "done")
        /\ ~Contains(strip(lower(t)), "completed")] @@ <<>>

(***************************************************************************)
(* C7  As claimed: every text with "list" and no due-date keyword is      *)
(* answered with action list and exactly the owner's pending tasks, in    *)
(* due date then creation order.                                           *)
(***************************************************************************)
ListReturnsPending ==
    (req.op = "chat" /\ PlainListOf[req.text]) =>
        /\ resp.code = 200
        /\ resp.action = "list"
        /\ ExactlyPendingOf(Returned(req, resp), tasks, req.user_id)
        /\ SortedByDueThenCreated(Returned(req, resp))

(***************************************************************************)
(* C7  As the code has it: every text with "list", no due-date keyword    *)
(* and neither "done" nor "completed" is answered with action list and    *)
(* exactly the owner's pending tasks, in due date (none first) then       *)
(* creation order, and the table stays as it was.                          *)
(***************************************************************************)
PlainListReturnsPending ==
    [][(req'.op = "chat" /\ PendingListOf[req'.text]) =>
          /\ resp'.code = 200
          /\ resp'.action = "list"
          /\ ExactlyPendingOf(Returned(req', resp'), tasks, req'.user_id)
          /\ SortedByDueThenCreated(Returned(req', resp'))
          /\ tasks' = tasks]_vars

\* a plain list returned two tasks in another order than the table holds them
PlainListReturnsPendingWitness ==
    /\ Resolved(req, resp)
    /\ req.text = "list"
    /\ Len(Returned(req, resp)) >= 2
    /\ Returned(req, resp)[1].id > Returned(req, resp)[2].id

(***************************************************************************)
(* C8  As claimed: a complete request whose text matches a done task of   *)
(* the owner finds no match: it is answered with action list and the      *)
(* table stays as it was.                                                  *)
(***************************************************************************)
DoneTaskNeverMatches ==
    [][(/\ Resolved(req', resp')
        /\ PolicyIntentOf[req'.text] = "complete"
        /\ MatchIn(tasks, req'.user_id, "done", req'.text)) =>
          /\ resp'.action = "list"
          /\ tasks' = tasks]_vars

(***************************************************************************)
(* C8  As the code has it: a complete request whose text matches a done   *)
(* task of the owner and no pending task of the owner finds no match: it  *)
(* is answered with action list and the pending tasks, and the table      *)
(* stays as it was.                                                        *)
(***************************************************************************)
OnlyDoneTaskNeverMatches ==
    [][(/\ Resolved(req', resp')
        /\ PolicyIntentOf[req'.text] = "complete"
        /\ MatchIn(tasks, req'.user_id, "done", req'.text)
        /\ ~MatchIn(tasks, req'.user_id, "pending", req'.text)) =>
          /\ resp'.action = "list"
          /\ Returned(req', resp') = Tasks(PendingOf(tasks, req'.user_id))
          /\ tasks' = tasks]_vars

\* a complete request was answered with the pending list while the task its
\* text matches is done
OnlyDoneTaskNeverMatchesWitness ==
    /\ Resolved(req, resp)
    /\ PolicyIntentOf[req.text] = "complete"
    /\ resp.action = "list"
    /\ MatchIn(tasks, req.user_id, "done", req.text)

(***************************************************************************)
(* C9  As claimed: for a text containing "end of month" the due date is   *)
(* the last day of the current month.                                      *)
(***************************************************************************)
LastDayOfMonth(d) == strftime(Date(d.year, d.month, DaysInMonth(d.year, d.month)))

EndOfMonthIsLastDay ==
    (req.op = "parse_date_from_text" /\ Mentions(req.text, "end of month")) =>
        parsed = LastDayOfMonth(today)

(***************************************************************************)
(* C9  As the code has it: for a text containing "end of month" and not   *)
(* "end of week" the due date is the last day of the current month, on    *)
(* every day: on the last day of a month it is that day, in December it   *)
(* is December 31.                                                         *)
(***************************************************************************)
EndOfMonthOnlyIsLastDay ==
    (/\ req.op = "parse_date_from_text"
     /\ Mentions(req.text, "end of month")
     /\ ~Mentions(req.text, "end of week")) =>
        /\ parsed = LastDayOfMonth(today)
        /\ today.day = DaysInMonth(today.year, today.month) => parsed = strftime(today)
        /\ today.month = 12 => parsed = strftime(Date(today.year, 12, 31))

\* "end of month" was parsed on the last day of a December
EndOfMonthOnlyIsLastDayWitness ==
    /\ req.op = "parse_date_from_text"
    /\ Mentions(req.text, "end of month")
    /\ ~Mentions(req.text, "end of week")
    /\ today.month = 12
    /\ today.day = 31
    /\ parsed = strftime(today)

(***************************************************************************)
(* C10  For a text containing "end of week", with or without "end of      *)
(* month", the due date is a Sunday 1 to 7 days after the current day,    *)
(* and the first such: never the current day.                              *)
(***************************************************************************)
EndOfWeekIsNextSunday ==
    (req.op = "parse_date_from_text" /\ Mentions(req.text, "end of week")) =>
        \E k \in 1..7 :
            /\ parsed = strftime(AddDays(today, k))
            /\ weekday(AddDays(today, k)) = 6
            /\ \A h \in 1..(k - 1) : weekday(AddDays(today, h)) # 6

\* a text with both phrases was parsed on a Sunday and is due seven days on
EndOfWeekIsNextSundayWitness ==
    /\ req.op = "parse_date_from_text"
    /\ Mentions(req.text, "end of week")
    /\ Mentions(req.text, "end of month")
    /\ weekday(today) = 6
    /\ parsed = strftime(AddDays(today, 7))

\* C11: logout invalidates the current token: in every state whose latest
\* request is a successful logout made with token T (so no login came after
\* it), verify_token(T) returns no payload, and a call presenting T is rejected.
LogoutInvalidatesToken ==
    (req.op = "logout" /\ resp.code = 200) => verify_token(cred[1]) = None

(***************************************************************************)
(* C12  Task matching for complete and delete is first-match-wins over the *)
(* owner's pending tasks in persisted order: with Q the pending rows of    *)
(* the owner that have a content word longer than 3 characters occurring   *)
(* in the lower-cased text, a complete or delete request changes the first *)
(* row of Q and no other (so never a later one, and never a row whose      *)
(* words are all 3 characters or shorter), and with Q empty it changes     *)
(* nothing and answers with action list.                                   *)
(***************************************************************************)
\* the words of a content, lower-cased
WordsOf == [c \in Contents |-> split(lower(c))] @@ <<>>

\* a content word longer than 3 characters occurs in the lower-cased text
Qualifies(content, text) ==
    \E k \in 1..Len(WordsOf[content]) :
        Len(WordsOf[content][k]) > 3 /\ Contains(TextLower[text], WordsOf[content][k])

QualifiesOf ==
    [c \in Contents |-> [t \in MatchTexts |-> Qualifies(c, t)] @@ <<>>] @@ <<>>

\* the positions in the table of the owner's pending rows that qualify
Qualifying(tbl, u, text) ==
    {i \in 1..Len(tbl) : /\ tbl[i].user_id = u
                         /\ tbl[i].status = "pending"
                         /\ QualifiesOf[tbl[i].content][text]}

FirstOf(positions) == CHOOSE i \in positions : \A j \in positions : i <= j

FirstMatchWins ==
    [][(/\ Resolved(req', resp')
        /\ PolicyIntentOf[req'.text] \in {"complete", "delete"}) =>
          LET Q == Qualifying(tasks, req'.user_id, req'.text) IN
          IF Q = {}
          THEN resp'.action = "list" /\ tasks' = tasks
          ELSE /\ resp'.action = PolicyIntentOf[req'.text]
               /\ \E k \in 1..Len(WordsOf[tasks[FirstOf(Q)].content]) :
                     Len(WordsOf[tasks[FirstOf(Q)].content][k]) > 3
               /\ tasks' = IF PolicyIntentOf[req'.text] = "complete"
                           THEN [tasks EXCEPT ![FirstOf(Q)].status = "done"]
                           ELSE Without(tasks, FirstOf(Q))]_vars

\* a complete request marked a task done, and a later row of the same owner
\* with another content is pending and qualifies for the same text
FirstMatchWinsWitness ==
    /\ Resolved(req, resp)
    /\ resp.action = "complete"
    /\ \E i, j \in 1..Len(tasks) :
          /\ i < j
          /\ tasks[i].user_id = req.user_id /\ tasks[j].user_id = req.user_id
          /\ tasks[i].status = "done" /\ tasks[j].status = "pending"
          /\ tasks[i].content # tasks[j].content
          /\ QualifiesOf[tasks[i].content][req.text]
          /\ QualifiesOf[tasks[j].content][req.text]

(***************************************************************************)
(* C13  Same-owner race: two complete (or two delete) requests of one      *)
(* owner, handled by two workers, can both read the same task as pending   *)
(* and both select it as the match before either commits.  Whenever that   *)
(* has happened and the first has committed, the commit of the second      *)
(* returns the same action complete (or delete) for that task and leaves   *)
(* the table as the first commit left it: the task is changed or removed   *)
(* once.                                                                   *)
(***************************************************************************)
\* worker v has committed for the task that worker w matched too and is
\* about to commit for, on a request of the same owner and the same kind
RacedWith(w, v) ==
    /\ w # v
    /\ calls[w].pc = "matched"
    /\ calls[v].pc = "idle"
    /\ calls[v].matched_task # None
    /\ calls[v].user_id = calls[w].user_id
    /\ calls[v].matched_task[1].id = calls[w].matched_task[1].id
    /\ calls[v].response.action = PolicyIntentOf[calls[w].text]

====
